---- MODULE Spec2Model ----
(***************************************************************************)
(* A model of the two protocol pieces of the SkeletonProject sources:      *)
(*   - AGameModeWithGameLift (GameModeWithGameLift.cpp): the game server   *)
(*     registers with the GameLift agent and reacts to its callbacks;      *)
(*   - UOfflineMainMenuWidget (OfflineMainMenuWidget.cpp): the client      *)
(*     logs in, asks for a session and opens the level "ip:port".          *)
(* The GameLift agent and the HTTP backend are the environment: they pick  *)
(* the outcome of every SDK call and the content of every HTTP response.   *)
(***************************************************************************)
EXTENDS Integers, Sequences, FiniteSets, Bags, TLC

\* ------------------------------------------------------------------ bounds
\* Agent callbacks (start-session, terminate, health-check) delivered in a run.
MaxCallbacks == 3
\* Invocations of OnLoginClicked in a run.
MaxClicks == 2

VARIABLES
    \* ---- server: AGameModeWithGameLift
    withGameLift,     \* build: WITH_GAMELIFT is defined
    noGameLiftFlag,   \* launch: -NoGameLift is on the command line
    constructed,      \* the constructor has run
    params,           \* the heap-allocated FProcessParameters
    agentParams,      \* the parameters the agent holds after ProcessReady
    sdkCalls,         \* the calls made on FGameLiftServerSDKModule, in order
    healthReplies,    \* what the OnHealthCheck lambda returned, in order
    log,              \* UE_LOG output
    hostShutdown,     \* the host has signalled shutdown
    delivered,        \* the callbacks the agent has invoked, in order
    \* ---- client: UOfflineMainMenuWidget
    user, pass,       \* the BlueprintReadWrite credential fields
    clicks,           \* invocations of OnLoginClicked
    requests,         \* every HTTP request created, in order (index = id)
    pending,          \* ids of the requests in flight
    responses,        \* the completions delivered
    opened            \* the UGameplayStatics::OpenLevel calls made (a bag)

serverVars == <<withGameLift, noGameLiftFlag, constructed, params, agentParams,
                sdkCalls, healthReplies, log, hostShutdown, delivered>>
clientVars == <<user, pass, clicks, requests, pending, responses, opened>>
vars == <<serverVars, clientVars>>

\* =================================================================== server

\* params->port = 7777;
ListenPort == 7777

\* logfiles.Add(TEXT("aLogFile.txt"));
LogFiles == <<"aLogFile.txt">>

\* No FProcessParameters exists before SetupGameLift allocates one.
NoParams ==
    [allocated |-> FALSE, callbacks |-> {}, port |-> 0, logParameters |-> <<>>]

\* The FProcessParameters SetupGameLift fills in: the three lambdas bound,
\* the port and the log files.
ProcessParameters ==
    [allocated |-> TRUE,
     callbacks |-> {"OnStartGameSession", "OnTerminate", "OnHealthCheck"},
     port |-> ListenPort,
     logParameters |-> LogFiles]

\* One call on the SDK module with the outcome the agent gave it.
SdkCall(op, ok) == [op |-> op, ok |-> ok]

\* UE_LOG(LogGameLift, Warning, ...)
LogLine(verbosity, text) ==
    [category |-> "LogGameLift", verbosity |-> verbosity, text |-> text]

\* SetupGameLift as it would be if it invoked the start-session lambda where
\* it should bind it: ActivateGameSession is called before ProcessReady.
SetupGameLift_ActivatesEarly(initOk, readyOk) ==
    /\ sdkCalls' = sdkCalls \o <<SdkCall("InitSDK", initOk),
                                 SdkCall("ActivateGameSession", FALSE),
                                 SdkCall("ProcessReady", initOk /\ readyOk)>>
    /\ params' = ProcessParameters
    /\ agentParams' = IF initOk /\ readyOk THEN ProcessParameters ELSE agentParams

\* SetupGameLift: InitSDK, bind the three callbacks, ProcessReady.  Both
\* outcomes are discarded; ProcessReady cannot succeed without the local
\* connection InitSDK establishes.
SetupGameLift(initOk, readyOk) ==
    /\ sdkCalls' = sdkCalls \o <<SdkCall("InitSDK", initOk),
                                 SdkCall("ProcessReady", initOk /\ readyOk)>>
    /\ params' = ProcessParameters
    /\ agentParams' = IF initOk /\ readyOk THEN ProcessParameters ELSE agentParams

\* The constructor as it would be if it did not look at -NoGameLift.
Constructor_IgnoresFlag ==
    /\ ~constructed
    /\ constructed' = TRUE
    /\ IF withGameLift
       THEN /\ log' = Append(log, LogLine("Warning", "Starting GameLift"))
            /\ \E initOk \in BOOLEAN, readyOk \in BOOLEAN :
                   SetupGameLift(initOk, readyOk)
       ELSE UNCHANGED <<params, agentParams, sdkCalls, log>>
    /\ UNCHANGED <<withGameLift, noGameLiftFlag, healthReplies, hostShutdown,
                   delivered>>
    /\ UNCHANGED clientVars

\* The constructor: under WITH_GAMELIFT, SetupGameLift unless -NoGameLift.
Constructor ==
    /\ ~constructed
    /\ constructed' = TRUE
    /\ IF withGameLift
       THEN IF ~noGameLiftFlag
            THEN /\ log' = Append(log, LogLine("Warning", "Starting GameLift"))
                 /\ \E initOk \in BOOLEAN, readyOk \in BOOLEAN :
                        SetupGameLift(initOk, readyOk)
            ELSE /\ log' = Append(log, LogLine("Warning",
                               "Skipping GameLift because of command line"))
                 /\ UNCHANGED <<params, agentParams, sdkCalls>>
       ELSE UNCHANGED <<params, agentParams, sdkCalls, log>>
    /\ UNCHANGED <<withGameLift, noGameLiftFlag, healthReplies, hostShutdown,
                   delivered>>
    /\ UNCHANGED clientVars

\* The agent can invoke a callback once ProcessReady handed it over.
CanDeliver(callback) ==
    /\ callback \in agentParams.callbacks
    /\ Len(delivered) < MaxCallbacks
    /\ delivered' = Append(delivered, callback)

\* The onGameSession lambda as it would be if it returned without calling
\* ActivateGameSession (leaving the acknowledgement to later code).
onGameSession_NoAck(ok) ==
    UNCHANGED <<withGameLift, noGameLiftFlag, constructed, params,
                agentParams, sdkCalls, healthReplies, log, hostShutdown>>

\* The onGameSession lambda: ActivateGameSession, outcome discarded.
onGameSession(ok) ==
    /\ sdkCalls' = Append(sdkCalls, SdkCall("ActivateGameSession", ok))
    /\ UNCHANGED <<withGameLift, noGameLiftFlag, constructed, params,
                   agentParams, healthReplies, log, hostShutdown>>

\* The OnTerminate lambda as it would be with an empty body.
OnTerminate_NoAck(ok) ==
    UNCHANGED <<withGameLift, noGameLiftFlag, constructed, params,
                agentParams, sdkCalls, healthReplies, log, hostShutdown>>

\* The OnTerminate lambda as it would be if it also unbound the callbacks of
\* the captured parameters.
OnTerminate_Unbinds(ok) ==
    /\ sdkCalls' = Append(sdkCalls, SdkCall("ProcessEnding", ok))
    /\ params' = [params EXCEPT !.callbacks = {}]
    /\ UNCHANGED <<withGameLift, noGameLiftFlag, constructed,
                   agentParams, healthReplies, log, hostShutdown>>

\* The OnTerminate lambda: ProcessEnding, outcome discarded.
OnTerminate(ok) ==
    /\ sdkCalls' = Append(sdkCalls, SdkCall("ProcessEnding", ok))
    /\ UNCHANGED <<withGameLift, noGameLiftFlag, constructed, params,
                   agentParams, healthReplies, log, hostShutdown>>

\* The OnHealthCheck lambda as it would be if it reported unhealthy.
OnHealthCheck_Unhealthy ==
    /\ healthReplies' = Append(healthReplies, FALSE)
    /\ UNCHANGED <<withGameLift, noGameLiftFlag, constructed, params,
                   agentParams, sdkCalls, log, hostShutdown>>

\* The OnHealthCheck lambda: return true.
OnHealthCheck ==
    /\ healthReplies' = Append(healthReplies, TRUE)
    /\ UNCHANGED <<withGameLift, noGameLiftFlag, constructed, params,
                   agentParams, sdkCalls, log, hostShutdown>>

\* The agent invokes params->OnStartGameSession.
DeliverStartGameSession ==
    /\ CanDeliver("OnStartGameSession")
    /\ \E ok \in BOOLEAN : onGameSession(ok)
    /\ UNCHANGED clientVars

\* The agent invokes params->OnTerminate.
DeliverTerminate ==
    /\ CanDeliver("OnTerminate")
    /\ \E ok \in BOOLEAN : OnTerminate(ok)
    /\ UNCHANGED clientVars

\* The agent invokes params->OnHealthCheck.
DeliverHealthCheck ==
    /\ CanDeliver("OnHealthCheck")
    /\ OnHealthCheck
    /\ UNCHANGED clientVars

\* The host signals shutdown: the class declares no hook that reacts to it.
HostShutdown ==
    /\ constructed
    /\ ~hostShutdown
    /\ hostShutdown' = TRUE
    /\ UNCHANGED <<withGameLift, noGameLiftFlag, constructed, params,
                   agentParams, sdkCalls, healthReplies, log, delivered>>
    /\ UNCHANGED clientVars

ServerInit ==
    /\ withGameLift \in BOOLEAN
    /\ noGameLiftFlag \in BOOLEAN
    /\ constructed = FALSE
    /\ params = NoParams
    /\ agentParams = NoParams
    /\ sdkCalls = <<>>
    /\ healthReplies = <<>>
    /\ log = <<>>
    /\ hostShutdown = FALSE
    /\ delivered = <<>>

ServerNext ==
    \/ Constructor
    \/ DeliverStartGameSession
    \/ DeliverTerminate
    \/ DeliverHealthCheck
    \/ HostShutdown

\* =================================================================== client

\* The constructor's three strings.
ApiGatewayEndpoint ==
    "https://yfg5i8v0w4.execute-api.us-west-2.amazonaws.com/potato-api-test-stage"

LoginURI == "/login"

StartSessionURI == "/startsession"

\* The credential pairs user and pass can hold: the empty strings they are
\* constructed with, or what the UI wrote into them.
Credentials == {<<"", "">>, <<"alice", "pw1">>}

\* A response body: whether FJsonSerializer::Deserialize accepts it and, if
\* so, its root object.  An object is a set of <<field, value>>; the fields
\* of the root are objects, the fields of those are strings.
Body(json, obj) == [json |-> json, obj |-> obj]

\* No content: a response that did not arrive, or is not JSON.
NoBody == Body(FALSE, {})

\* What the /login backend can answer.
LoginBodies ==
    { NoBody,
      Body(TRUE, {<<"tokens", {}>>}),
      Body(TRUE, {<<"tokens", {<<"IdToken", "T1">>}>>}),
      Body(TRUE, {<<"tokens", {<<"IdToken", "T2">>}>>}) }

\* What the /startsession backend can answer.
SessionBodies ==
    { NoBody,
      Body(TRUE, {<<"PlayerSession", {<<"IpAddress", "10.0.0.5">>}>>}),
      Body(TRUE, {<<"PlayerSession",
                    {<<"IpAddress", "10.0.0.5">>, <<"Port", "7777">>}>>}),
      Body(TRUE, {<<"PlayerSession",
                    {<<"IpAddress", "10.0.0.6">>, <<"Port", "7778">>}>>}) }

\* FJsonSerializer::Deserialize(Reader, JsonObject)
Deserialize(Response) == Response.json

HasField(obj, name) == \E f \in obj : f[1] = name

\* FJsonObject::GetObjectField: the field, or an empty object when absent.
GetObjectField(obj, name) ==
    IF HasField(obj, name) THEN (CHOOSE f \in obj : f[1] = name)[2] ELSE {}

\* FJsonObject::GetStringField: the field, or an empty string when absent.
GetStringField(obj, name) ==
    IF HasField(obj, name) THEN (CHOOSE f \in obj : f[1] = name)[2] ELSE ""

\* The request set-up as it would be without the final ProcessRequest()
\* call: the request is created and never put in flight.
ProcessRequest_NotSent(req) ==
    /\ requests' = Append(requests, req)
    /\ pending' = pending \ {req.cause}

\* Http->CreateRequest() ... ProcessRequest(): the request is in flight.
\* cause is the id of the request whose completion created this one (0: a
\* click did).
ProcessRequest(req) ==
    /\ requests' = Append(requests, req)
    /\ pending' = (pending \ {req.cause}) \cup {req.id}

\* A completion that sends nothing: the completed request leaves the flight.
NoRequest(Request) ==
    /\ requests' = requests
    /\ pending' = pending \ {Request.id}

\* LoginRequest as it would be if it bound the other completion handler.
LoginRequest_WrongHandler(usr, pwd) ==
    ProcessRequest(
        [id |-> Len(requests) + 1,
         verb |-> "POST",
         url |-> ApiGatewayEndpoint \o LoginURI,
         headers |-> {<<"Content-Type", "application/json">>},
         content |-> {<<"username", usr>>, <<"password", pwd>>},
         onComplete |-> "OnStartSessionResponse",
         cause |-> 0])

\* LoginRequest: POST <endpoint>/login with {username, password}.
LoginRequest(usr, pwd) ==
    ProcessRequest(
        [id |-> Len(requests) + 1,
         verb |-> "POST",
         url |-> ApiGatewayEndpoint \o LoginURI,
         headers |-> {<<"Content-Type", "application/json">>},
         content |-> {<<"username", usr>>, <<"password", pwd>>},
         onComplete |-> "OnLoginResponse",
         cause |-> 0])

\* OnLoginClicked: LoginRequest(user, pass).
OnLoginClicked ==
    /\ clicks < MaxClicks
    /\ clicks' = clicks + 1
    /\ LoginRequest(user, pass)
    /\ UNCHANGED <<user, pass, responses, opened>>
    /\ UNCHANGED serverVars

\* StartSessionRequest as it would be if the widget kept the token of its
\* first login in a member and sent that one with every session request.
StartSessionRequest_CachedToken(idt, Request) ==
    LET earlier == {i \in 1..Len(requests) :
                       requests[i].onComplete = "OnStartSessionResponse"}
        first == CHOOSE i \in earlier : \A k \in earlier : i <= k
        cached == (CHOOSE h \in requests[first].headers :
                       h[1] = "Authorization")[2]
    IN  ProcessRequest(
            [id |-> Len(requests) + 1,
             verb |-> "GET",
             url |-> ApiGatewayEndpoint \o StartSessionURI,
             headers |-> {<<"Content-Type", "application/json">>,
                          <<"Authorization",
                            IF earlier = {} THEN idt ELSE cached>>},
             content |-> {},
             onComplete |-> "OnStartSessionResponse",
             cause |-> Request.id])

\* StartSessionRequest: GET <endpoint>/startsession, Authorization: idt.
StartSessionRequest(idt, Request) ==
    ProcessRequest(
        [id |-> Len(requests) + 1,
         verb |-> "GET",
         url |-> ApiGatewayEndpoint \o StartSessionURI,
         headers |-> {<<"Content-Type", "application/json">>,
                      <<"Authorization", idt>>},
         content |-> {},
         onComplete |-> "OnStartSessionResponse",
         cause |-> Request.id])

\* OnLoginResponse as it would be without its two checks.
OnLoginResponse_Unchecked(Request, Response, bWasSuccessful) ==
    /\ StartSessionRequest(
           GetStringField(GetObjectField(Response.obj, "tokens"), "IdToken"),
           Request)
    /\ opened' = opened

\* OnLoginResponse: on a successful transport result and a body that
\* deserializes, StartSessionRequest(tokens.IdToken).
OnLoginResponse(Request, Response, bWasSuccessful) ==
    /\ IF bWasSuccessful /\ Deserialize(Response)
       THEN StartSessionRequest(
                GetStringField(GetObjectField(Response.obj, "tokens"), "IdToken"),
                Request)
       ELSE NoRequest(Request)
    /\ opened' = opened

\* OpenLevel as it would be if the handler called it a second time.
OpenLevel_Twice(LevelName, Request) ==
    opened' = opened (+) SetToBag({[level |-> LevelName, cause |-> Request.id]})
                     (+) SetToBag({[level |-> LevelName, cause |-> Request.id]})

\* UGameplayStatics::OpenLevel(GetWorld(), FName(*LevelName), false)
OpenLevel(LevelName, Request) ==
    opened' = opened (+) SetToBag({[level |-> LevelName, cause |-> Request.id]})

\* OnStartSessionResponse as it would be if it read IpAddress and Port from
\* the root object instead of from PlayerSession.
OnStartSessionResponse_ReadsRoot(Request, Response, bWasSuccessful) ==
    /\ NoRequest(Request)
    /\ IF bWasSuccessful /\ Deserialize(Response)
       THEN LET IpAddress == GetStringField(Response.obj, "IpAddress")
                Port == GetStringField(Response.obj, "Port")
            IN  OpenLevel(IpAddress \o ":" \o Port, Request)
       ELSE opened' = opened

\* OnStartSessionResponse: on a successful transport result and a body that
\* deserializes, OpenLevel(IpAddress + ":" + Port).
OnStartSessionResponse(Request, Response, bWasSuccessful) ==
    /\ NoRequest(Request)
    /\ IF bWasSuccessful /\ Deserialize(Response)
       THEN LET PlayerSession == GetObjectField(Response.obj, "PlayerSession")
                IpAddress == GetStringField(PlayerSession, "IpAddress")
                Port == GetStringField(PlayerSession, "Port")
            IN  OpenLevel(IpAddress \o ":" \o Port, Request)
       ELSE opened' = opened

\* What the backend can answer on a URL.
BackendBodies(url) ==
    IF url = ApiGatewayEndpoint \o LoginURI THEN LoginBodies ELSE SessionBodies

\* The completion the transport hands to the bound handler.
Completion(id, ok, body) == [request |-> id, ok |-> ok, body |-> body]

\* The transport completes a request bound to OnLoginResponse.
DeliverLoginResponse ==
    /\ \E id \in pending, ok \in BOOLEAN :
       \E body \in BackendBodies(requests[id].url) :
          /\ requests[id].onComplete = "OnLoginResponse"
          /\ ~ok => body = NoBody
          /\ responses' = responses \cup {Completion(id, ok, body)}
          /\ OnLoginResponse(requests[id], body, ok)
    /\ UNCHANGED <<user, pass, clicks>>
    /\ UNCHANGED serverVars

\* The transport completes a request bound to OnStartSessionResponse.
DeliverStartSessionResponse ==
    /\ \E id \in pending, ok \in BOOLEAN :
       \E body \in BackendBodies(requests[id].url) :
          /\ requests[id].onComplete = "OnStartSessionResponse"
          /\ ~ok => body = NoBody
          /\ responses' = responses \cup {Completion(id, ok, body)}
          /\ OnStartSessionResponse(requests[id], body, ok)
    /\ UNCHANGED <<user, pass, clicks>>
    /\ UNCHANGED serverVars

ClientInit ==
    /\ \E c \in Credentials : user = c[1] /\ pass = c[2]
    /\ clicks = 0
    /\ requests = <<>>
    /\ pending = {}
    /\ responses = {}
    /\ opened = EmptyBag

ClientNext ==
    \/ OnLoginClicked
    \/ DeliverLoginResponse
    \/ DeliverStartSessionResponse

\* ============================================================ specifications

Init == ServerInit /\ ClientInit

\* The game server with its agent.
ServerSpec == Init /\ [][ServerNext]_vars

\* The client with its backend.
ClientSpec == Init /\ [][ClientNext]_vars

\* The client with a transport that eventually completes every request it
\* was given: each completion handler is eventually called while a request
\* bound to it is in flight.
FairClientSpec ==
    /\ ClientSpec
    /\ WF_vars(DeliverLoginResponse)
    /\ WF_vars(DeliverStartSessionResponse)

Next == ServerNext \/ ClientNext

Spec == Init /\ [][Next]_vars

\* ==================================================== the manager's state

\* The positions of the calls of op in sdkCalls.
Calls(op) == {i \in 1..Len(sdkCalls) : sdkCalls[i].op = op}

\* InitSDK and then ProcessReady have both succeeded before position i.
RegisteredBefore(i) ==
    \E k \in 1..Len(sdkCalls), j \in 1..Len(sdkCalls) :
        /\ k < j /\ j < i
        /\ sdkCalls[k] = SdkCall("InitSDK", TRUE)
        /\ sdkCalls[j] = SdkCall("ProcessReady", TRUE)

Registered == RegisteredBefore(Len(sdkCalls) + 1)

\* Registration was attempted and did not succeed.
RegistrationFailed == Calls("InitSDK") # {} /\ ~Registered

\* The state of the lifecycle manager, read off the calls it has made.
ManagerState ==
    IF Calls("ProcessEnding") # {} THEN "Terminating"
    ELSE IF Calls("InitSDK") = {} THEN "Unregistered"
    ELSE IF ~Registered THEN "RegistrationFailed"
    ELSE IF \E i \in Calls("ActivateGameSession") : sdkCalls[i].ok
         THEN "SessionActive"
    ELSE "AwaitingSession"

\* A log line that reports a failure: any line but the two start-up notices.
ReportsFailure(line) ==
    line.text \notin {"Starting GameLift",
                      "Skipping GameLift because of command line"}

FailureReported == \E i \in 1..Len(log) : ReportsFailure(log[i])

\* ======================================================= claims: the server

\* C3: every ActivateGameSession call comes after a successful InitSDK
\* followed by a successful ProcessReady, whatever callbacks the agent
\* delivers and in whatever order.
C3_ActivateOnlyAfterRegistration ==
    \A i \in Calls("ActivateGameSession") : RegisteredBefore(i)

\* C3 witness: the agent delivered other callbacks and then a start-session
\* callback, and the manager acknowledged the activation.
C3_Witness ==
    /\ Len(delivered) >= 2
    /\ delivered[1] # "OnStartGameSession"
    /\ Calls("ActivateGameSession") # {}

\* C4: the manager registers at most once, and every ProcessReady call is
\* preceded by an InitSDK call that succeeded.
C4_RegistersOnceReadyAfterInitSucceeded ==
    /\ Cardinality(Calls("InitSDK")) <= 1
    /\ Cardinality(Calls("ProcessReady")) <= 1
    /\ \A i \in Calls("ProcessReady") :
          \E k \in Calls("InitSDK") : k < i /\ sdkCalls[k].ok

\* C5: with -NoGameLift the manager stays Unregistered: no SDK call is ever
\* made (no InitSDK, ProcessReady, ActivateGameSession, ProcessEnding), no
\* FProcessParameters is filled in or handed to the agent, and no callback
\* is ever invoked, also after the host signalled shutdown.
C5_NoGameLiftStaysUnregistered ==
    noGameLiftFlag =>
        /\ ManagerState = "Unregistered"
        /\ sdkCalls = <<>>
        /\ params = NoParams
        /\ agentParams = NoParams
        /\ delivered = <<>>
        /\ healthReplies = <<>>

\* C5 witness: a GameLift build started with -NoGameLift, constructed, and
\* the host has signalled shutdown.
C5_Witness ==
    /\ withGameLift
    /\ noGameLiftFlag
    /\ constructed
    /\ hostShutdown
    /\ Len(log) = 1

\* C6: a terminate callback delivered in AwaitingSession takes the manager to
\* Terminating and makes it call ProcessEnding exactly once.
C6_TerminateWhileAwaitingSession ==
    [][ (ManagerState = "AwaitingSession"
           /\ delivered' = Append(delivered, "OnTerminate"))
        => /\ ManagerState' = "Terminating"
           /\ Cardinality(Calls("ProcessEnding")') = 1
           /\ Len(sdkCalls') = Len(sdkCalls) + 1 ]_vars

\* C6 witness: the first callback of the run was the terminate callback, so
\* no session was ever assigned, and the manager is Terminating.
C6_Witness ==
    /\ delivered = <<"OnTerminate">>
    /\ ManagerState = "Terminating"
    /\ Cardinality(Calls("ProcessEnding")) = 1

\* C9: after a failed registration the failure has been reported to the
\* host, the manager is not in AwaitingSession and it acknowledges neither a
\* session nor a termination.
C9_RegistrationFailureIsSurfaced ==
    RegistrationFailed =>
        /\ FailureReported
        /\ ManagerState # "AwaitingSession"
        /\ Calls("ActivateGameSession") = {}
        /\ Calls("ProcessEnding") = {}

\* C10: once ActivateGameSession has failed inside the start-session
\* callback the failure has been reported; as long as no activation has
\* succeeded and no termination arrived the manager is in AwaitingSession.
C10_ActivationFailureIsReported ==
    (\E i \in Calls("ActivateGameSession") : ~sdkCalls[i].ok) =>
        /\ FailureReported
        /\ ( /\ \A i \in Calls("ActivateGameSession") : ~sdkCalls[i].ok
             /\ Calls("ProcessEnding") = {} )
           => ManagerState = "AwaitingSession"

\* ====================================================== the client's history

\* The two URLs requests are sent to.
LoginURL == ApiGatewayEndpoint \o LoginURI

StartSessionURL == ApiGatewayEndpoint \o StartSessionURI

\* The requests sent to /login and to /startsession.
LoginRequests == {i \in 1..Len(requests) : requests[i].url = LoginURL}

SessionRequests ==
    {i \in 1..Len(requests) : requests[i].url = StartSessionURL}

\* The login attempt a request belongs to: the login request itself, or the
\* login request whose completion sent it.
AttemptOf(i) == IF requests[i].cause = 0 THEN i ELSE requests[i].cause

\* The login request completed with a non-success transport result.
TransportFailed(i) == \E c \in responses : c.request = i /\ ~c.ok

\* The login response carries tokens.IdToken.
HasIdToken(body) ==
    /\ body.json
    /\ HasField(body.obj, "tokens")
    /\ HasField(GetObjectField(body.obj, "tokens"), "IdToken")

\* The login completed successfully: the transport succeeded and the
\* response carries the token.
LoginSucceeded(i) ==
    \E c \in responses : c.request = i /\ c.ok /\ HasIdToken(c.body)

\* The levels opened for a login attempt.
OpenedFor(i) == {o \in BagToSet(opened) : AttemptOf(o.cause) = i}

\* ======================================================= claims: the client

\* C1: every session request belongs to a login attempt whose login has
\* completed successfully (transport success and a token in the response).
C1_SessionRequestOnlyAfterSuccessfulLogin ==
    \A i \in SessionRequests :
        /\ requests[i].cause \in LoginRequests
        /\ LoginSucceeded(requests[i].cause)

\* C2: an attempt whose login completed with a non-success transport result
\* has no session request and no opened level.
C2_TransportFailureEndsAttempt ==
    \A i \in LoginRequests :
        TransportFailed(i) =>
            /\ \A j \in SessionRequests : AttemptOf(j) # i
            /\ OpenedFor(i) = {}

\* C2 witness: one attempt's login failed at the transport and the attempt is
\* over, while another attempt went through to OpenLevel.
C2_Witness ==
    /\ \E i \in LoginRequests : TransportFailed(i)
    /\ pending = {}
    /\ opened # EmptyBag

\* C7: a login response that succeeded at the transport but carries no
\* tokens.IdToken is followed by no session request of that attempt.
C7_MissingTokenSendsNoSessionRequest ==
    \A c \in responses :
        (c.request \in LoginRequests /\ c.ok /\ ~HasIdToken(c.body))
            => \A j \in SessionRequests : AttemptOf(j) # c.request

\* C8 as claimed: no session request is sent by the login operation itself,
\* that is from within the completion handler of a login request.
C8_LoginNeverRequestsSession ==
    \A j \in SessionRequests : requests[j].cause \notin LoginRequests

\* C8 as amended: sending a login request sends nothing else (one login
\* request per click, caused by nothing), the session request is sent by the
\* login completion handler itself once the login response arrived with a
\* successful transport result and a body that deserializes, and no level
\* is opened by a login completion: only a session completion opens one.
C8_LoginChainsSessionButOpensNothing ==
    /\ Cardinality(LoginRequests) = clicks
    /\ \A i \in LoginRequests : requests[i].cause = 0
    /\ \A j \in SessionRequests :
          /\ requests[j].cause \in LoginRequests
          /\ \E c \in responses :
                c.request = requests[j].cause /\ c.ok /\ c.body.json
    /\ \A o \in BagToSet(opened) : o.cause \in SessionRequests

\* C8 witness: a login completed and its handler sent the session request,
\* which is still in flight; nothing has been opened.
C8_Witness ==
    /\ \E j \in SessionRequests : j \in pending /\ LoginSucceeded(requests[j].cause)
    /\ opened = EmptyBag

\* No session is active: no ActivateGameSession call has succeeded.
NoSessionActive == \A i \in Calls("ActivateGameSession") : ~sdkCalls[i].ok

\* C11: a health-check callback delivered after a successful registration
\* while no session is active returns true.
C11_HealthCheckReturnsTrue ==
    [][ (Registered /\ NoSessionActive
           /\ delivered' = Append(delivered, "OnHealthCheck"))
        => healthReplies' = Append(healthReplies, TRUE) ]_vars

\* C11 witness: after a start-session callback whose activation failed, so
\* that no session is active, two health checks were answered.
C11_Witness ==
    /\ Registered
    /\ NoSessionActive
    /\ delivered = <<"OnStartGameSession", "OnHealthCheck", "OnHealthCheck">>
    /\ healthReplies = <<TRUE, TRUE>>

\* C12: a start-session callback delivered in AwaitingSession calls
\* ActivateGameSession within the callback, before it returns; and the
\* manager becomes SessionActive only in such a callback, by an
\* ActivateGameSession call that succeeded.
C12_ActivationAcknowledgedInCallback ==
    [][ /\ (ManagerState = "AwaitingSession"
              /\ delivered' = Append(delivered, "OnStartGameSession"))
           => \E ok \in BOOLEAN :
                 sdkCalls' = Append(sdkCalls, SdkCall("ActivateGameSession", ok))
        /\ (ManagerState # "SessionActive" /\ ManagerState' = "SessionActive")
           => /\ delivered' = Append(delivered, "OnStartGameSession")
              /\ sdkCalls' = Append(sdkCalls, SdkCall("ActivateGameSession", TRUE))
      ]_vars

\* C12 witness: a start-session callback arrived in AwaitingSession after a
\* health check, and the manager is SessionActive.
C12_Witness ==
    /\ delivered = <<"OnHealthCheck", "OnStartGameSession">>
    /\ ManagerState = "SessionActive"
    /\ sdkCalls[Len(sdkCalls)] = SdkCall("ActivateGameSession", TRUE)

\* C13: for every session response that succeeded at the transport and
\* carries PlayerSession.IpAddress = H and PlayerSession.Port = P, exactly
\* one level has been opened for that response, and it is "H:P".
C13_WellFormedSessionOpensTargetOnce ==
    \A c \in responses :
        (c.request \in SessionRequests /\ c.ok /\ c.body.json) =>
            \A f \in c.body.obj : \A H \in f[2], P \in f[2] :
                (f[1] = "PlayerSession" /\ H[1] = "IpAddress" /\ P[1] = "Port")
                => /\ CopiesIn([level |-> H[2] \o ":" \o P[2],
                                cause |-> c.request], opened) = 1
                   /\ \A o \in BagToSet(opened) :
                         o.cause = c.request => o.level = H[2] \o ":" \o P[2]

\* C13 witness: two attempts received well-formed session responses with
\* different targets, and both levels were opened.
C13_Witness ==
    /\ \E o \in BagToSet(opened) : o.level = "10.0.0.5:7777"
    /\ \E o \in BagToSet(opened) : o.level = "10.0.0.6:7778"
    /\ pending = {}

\* The session response carries PlayerSession.IpAddress and .Port.
WellFormedSession(body) ==
    /\ body.json
    /\ HasField(body.obj, "PlayerSession")
    /\ HasField(GetObjectField(body.obj, "PlayerSession"), "IpAddress")
    /\ HasField(GetObjectField(body.obj, "PlayerSession"), "Port")

\* The completion is a failure of login or of the session request: the
\* transport failed or the expected fields are absent.
Failed(c) ==
    \/ ~c.ok
    \/ IF c.request \in LoginRequests
       THEN ~HasIdToken(c.body)
       ELSE ~WellFormedSession(c.body)

\* What the UI layer can read back from the widget: its BlueprintReadWrite
\* properties.  The class declares no delegate, event or return value
\* through which a handler could tell its caller anything else.
CallerVisible == <<user, pass>>

\* C14: every failed completion of a login or session request is reported to
\* the UI layer: the step that handles it changes something the caller can
\* see.
C14_FailuresAreReported ==
    [][ \A c \in responses' \ responses :
            Failed(c) => CallerVisible' # CallerVisible ]_vars

\* C15: the client sends one login request per click and none on its own,
\* and the completion of a failed login or of a failed session request is
\* followed by no further request.
C15_NoRequestAfterFailure ==
    /\ Cardinality(LoginRequests) = clicks
    /\ \A c \in responses :
          Failed(c) => \A j \in 1..Len(requests) : requests[j].cause # c.request

\* C15, the part that holds: one login request per click, and no request
\* follows a completion whose transport failed or whose body does not
\* deserialize.
C15_NoRetry ==
    /\ Cardinality(LoginRequests) = clicks
    /\ \A c \in responses :
          (~c.ok \/ ~c.body.json)
              => \A j \in 1..Len(requests) : requests[j].cause # c.request
    /\ \A j \in 1..Len(requests) :
          requests[j].cause # 0 => j \in SessionRequests

\* The number of OpenLevel calls made by the completion of request j.
OpenedBy(j) ==
    BagCardinality([o \in {x \in BagToSet(opened) : x.cause = j} |-> opened[o]])

\* C16: a login request is followed by at most one session request (one
\* token, used once), a session request by at most one OpenLevel, and the
\* levels opened never outnumber the login attempts.
C16_OneTokenOneConnectionPerAttempt ==
    /\ \A i \in LoginRequests :
          Cardinality({j \in SessionRequests : requests[j].cause = i}) <= 1
    /\ \A j \in SessionRequests : OpenedBy(j) <= 1
    /\ BagCardinality(opened) <= Cardinality(LoginRequests)

\* C16 witness: two attempts, each with its session request and its level.
C16_Witness ==
    /\ clicks = 2
    /\ Cardinality(SessionRequests) = 2
    /\ BagCardinality(opened) = 2

\* C17: once registered, the parameters keep the values supplied at
\* registration through every callback: port 7777, the one log path
\* aLogFile.txt and the three callbacks bound, in the manager's
\* FProcessParameters and in what the agent holds.
C17_ParametersUnchangedAfterRegistration ==
    Registered =>
        /\ params.port = 7777
        /\ params.logParameters = <<"aLogFile.txt">>
        /\ params.callbacks = {"OnStartGameSession", "OnTerminate", "OnHealthCheck"}
        /\ agentParams = params

\* C17 witness: registered, and each of the three callbacks has run.
C17_Witness ==
    /\ Registered
    /\ {delivered[i] : i \in 1..Len(delivered)}
          = {"OnStartGameSession", "OnTerminate", "OnHealthCheck"}

\* C18: no ActivateGameSession call is made after a ProcessEnding call,
\* whatever callbacks the agent delivers after the terminate callback.
C18_NoActivationAfterTermination ==
    \A i \in Calls("ProcessEnding"), j \in Calls("ActivateGameSession") : j < i

\* The values of a header of request j.
Header(j, name) == {h[2] : h \in {x \in requests[j].headers : x[1] = name}}

\* C19: whatever the interleaving of the completions of concurrent
\* attempts, the Authorization header of a session request is the
\* tokens.IdToken of the login response whose completion sent it, and no
\* attempt opens more than one level.
C19_TokensOfAttemptsNotMixed ==
    /\ \A j \in SessionRequests : \A c \in responses :
          c.request = requests[j].cause =>
              \A f \in c.body.obj : \A t \in f[2] :
                  (f[1] = "tokens" /\ t[1] = "IdToken")
                      => Header(j, "Authorization") = {t[2]}
    /\ \A i \in LoginRequests :
          BagCardinality([o \in OpenedFor(i) |-> opened[o]]) <= 1

\* C19 witness: two logins were outstanding together (both were sent before
\* any session request), completed in the reverse order with different
\* tokens, and each attempt opened its level.
C19_Witness ==
    /\ Len(requests) = 4
    /\ {1, 2} \subseteq LoginRequests
    /\ requests[3].cause = 2
    /\ requests[4].cause = 1
    /\ Header(3, "Authorization") = {"T1"}
    /\ Header(4, "Authorization") = {"T2"}
    /\ OpenedFor(1) # {}
    /\ OpenedFor(2) # {}

\* The attempt of login request a has reached its final outcome: every
\* request of the attempt has completed and none is in flight.
AttemptFinished(a) ==
    /\ a \in LoginRequests
    /\ \A j \in 1..Len(requests) :
          AttemptOf(j) = a =>
              /\ j \notin pending
              /\ \E c \in responses : c.request = j

\* C20: with a transport that completes every request, every login attempt
\* that was started eventually reaches its final outcome.
C20_EveryAttemptFinishes ==
    \A a \in 1..(2 * MaxClicks) :
        (a \in LoginRequests) ~> AttemptFinished(a)

\* C20 witness: two attempts are over, one without a session request and
\* one with a level opened, and nothing is in flight.
C20_Witness ==
    /\ clicks = 2
    /\ \A a \in LoginRequests : AttemptFinished(a)
    /\ Cardinality(SessionRequests) = 1
    /\ BagCardinality(opened) = 1

====
